---- MODULE Spec2Model ----
(***************************************************************************)
(* Model of the PCD -> CSV converter (src/pcd2csv.py): the header reader   *)
(* of PointCloud.from_fileobj, MetaData.parse_header and its validation,   *)
(* MetaData.build_dtype, _parse_pc_data, PointCloud.numpy, pcd_to_csv and  *)
(* the batch loop of main.                                                 *)
(*                                                                         *)
(* A container is a sequence of text lines followed by a point block.  A   *)
(* line is [key, val]: its first token as written and the tokens after     *)
(* it; every token is a string, and int() is modelled as the inverse of    *)
(* decimal formatting.  A decoded value is named by the record and the     *)
(* column it was read from, so that column selection and row order are     *)
(* observable.                                                             *)
(*                                                                         *)
(* The second part models calculate_plant_height_and_plot                  *)
(* (src/figures/compute-crop-parameters.py): the point table is loaded,    *)
(* the ground points are found and refined, the ground level is            *)
(* subtracted, and the height and intensity statistics are computed.       *)
(* Lengths are whole centimetres; a height is the fraction of a numerator  *)
(* and the denominator zden, a percentile a fraction over PctDen x zden,   *)
(* so that the arithmetic of the statistics is exact.                      *)
(***************************************************************************)
EXTENDS Integers, Sequences, FiniteSets, TLC

VARIABLES
    \* pcd2csv
    idx,        \* main: number of *.pcd files taken from the glob so far
    attempts,   \* main: per file, how many times pcd_to_csv was called on it
    reports,    \* main: the lines printed so far, <<file, "Converted"|"Failed">>
    exitStatus, \* main: "running", or the exit status once the process ended
    container,  \* the file being converted (chosen when it is opened)
    stage,      \* position of the conversion of the current file
    lines,      \* from_fileobj: the header lines collected
    fpos,       \* the file object's position: [line, body] consumed so far
    metadata,   \* the MetaData built by parse_header
    dtype,      \* the record layout built by build_dtype
    pc_data,    \* the decoded point block
    request,    \* the column names last given to PointCloud.numpy
    matrix,     \* the matrix last returned by PointCloud.numpy
    csv,        \* the output CSV file of the current input file
    err         \* the exception that ended the conversion and the step
                \* that raised it

pcdvars == <<idx, attempts, reports, exitStatus, container, stage, lines, fpos,
             metadata, dtype, pc_data, request, matrix, csv, err>>

\* calculate_plant_height_and_plot
VARIABLES
    cstage,     \* position in the function
    txt,        \* the rows of the input file after its header row
    table,      \* the array `data` np.loadtxt returned; points, X, Y and Z (until
                \* they are filtered) and the loaded intensities are views
                \* of it
    zden,       \* the denominator of the heights
    X, Y, Z,    \* the local arrays of these names
    intensities,
    ground_points,
    selected_ground_points,
    ground_level,   \* the sum of the selected heights (the mean times their
                    \* number)
    dark_mask,
    above_015,  \* X_above_015, Y_above_015, Z_above_015 and
                \* intensities_above_015
    pct,        \* p50 ... p90
    count_top,  \* count_top_50 ... count_top_90
    avg_int,    \* avg_int_50 ... avg_int_90, each a fraction <<sum, number>>
    bounding_box,   \* bounding_box_area and bounding_box_volume
    p99_top_z,
    printed,    \* the lines printed: <<label, value>>
    returned,   \* the value returned, if any
    cerr        \* the exception that ended the function and its step

cropvars == <<cstage, txt, table, zden, X, Y, Z, intensities, ground_points,
              selected_ground_points, ground_level, dark_mask, above_015,
              pct, count_top, avg_int, bounding_box, p99_top_z, printed,
              returned, cerr>>

vars == <<pcdvars, cropvars>>

-----------------------------------------------------------------------------
(* Bounds of the model                                                     *)

MaxFiles == 2
MaxFields == 2
MaxPoints == 2
MaxExtra == 2
MaxRequest == 2

-----------------------------------------------------------------------------
(* Generic helpers                                                         *)

Range(s) == {s[i] : i \in 1..Len(s)}

SeqsUpTo(S, n) == UNION {[1..k -> S] : k \in 0..n}

RECURSIVE SumSeq(_)
SumSeq(s) == IF s = <<>> THEN 0 ELSE s[1] + SumSeq(Tail(s))

Min(a, b) == IF a < b THEN a ELSE b

Max(a, b) == IF a > b THEN a ELSE b

\* The first index of v in s (list.index / tuple.index), 0 when absent.
IndexOf(s, v) ==
    IF \E i \in 1..Len(s) : s[i] = v
    THEN CHOOSE i \in 1..Len(s) : s[i] = v /\ \A j \in 1..(i - 1) : s[j] # v
    ELSE 0

-----------------------------------------------------------------------------
(* Text: keys, tokens, int()                                               *)

\* The header keys, each as <<lower case, upper case, mixed case>>; the last
\* two rows are keys the parser does not recognize.
KeyTable ==
    << <<"version", "VERSION", "Version">>,
       <<"fields", "FIELDS", "Fields">>,
       <<"size", "SIZE", "Size">>,
       <<"type", "TYPE", "Type">>,
       <<"count", "COUNT", "Count">>,
       <<"width", "WIDTH", "Width">>,
       <<"height", "HEIGHT", "Height">>,
       <<"viewpoint", "VIEWPOINT", "Viewpoint">>,
       <<"points", "POINTS", "Points">>,
       <<"data", "DATA", "Data">>,
       <<"extension", "EXTENSION", "Extension">>,
       <<"dataset", "DATASET", "Dataset">> >>

StyleColumn(style) ==
    CASE style = "lower" -> 1 [] style = "upper" -> 2 [] style = "mixed" -> 3

\* A key written in the given style.
Styled(key, style) ==
    LET r == CHOOSE i \in 1..Len(KeyTable) : KeyTable[i][1] = key
    IN  KeyTable[r][StyleColumn(style)]

\* str.lower() of a key as written.
Lower(word) ==
    IF \E i \in 1..Len(KeyTable) : word \in Range(KeyTable[i])
    THEN KeyTable[CHOOSE i \in 1..Len(KeyTable) : word \in Range(KeyTable[i])][1]
    ELSE word

\* line.startswith("DATA"): the line starts with its key.
StartsWithDATA(line) == line.key \in {"DATA", "DATASET"}

\* line.startswith("#")
IsComment(line) == line.key = "#"

\* The stripped line is the empty string.
IsBlank(line) == line.key = "" /\ line.val = <<>>

\* len() of the stripped line: the tokens separated by single blanks.
LineLen(line) ==
    Len(line.key) + SumSeq([i \in 1..Len(line.val) |-> 1 + Len(line.val[i])])

\* The bytes a line takes in the file: the stripped line and its newline.
LineBytes(line) == LineLen(line) + 1

HeaderLineCap == 10

IntRange == (0 - 1)..16

IsInt(tok) == \E n \in IntRange : ToString(n) = tok

\* int(tok) of a decimal token.
IntOf(tok) == CHOOSE n \in IntRange : ToString(n) = tok

-----------------------------------------------------------------------------
(* The container as a stream of lines                                      *)

\* What iterating the file object yields after the header lines: the rows
\* of a text point block; a binary point block is one line when its bytes
\* decode as UTF-8 and a line that cannot be decoded otherwise.
BodyLines(c) ==
    IF c.body.kind = "txt" THEN c.body.rows
    ELSE IF c.body.nbytes = 0 THEN <<>>
    ELSE IF c.body.utf8 THEN << [key |-> "<text>", val |-> <<>>] >>
    ELSE << [key |-> "<bytes>", val |-> <<>>] >>

Stream(c) == c.hdr \o BodyLines(c)

\* bline.decode(encoding="utf-8") raises UnicodeDecodeError.
IsUndecodable(line) == line.key = "<bytes>"

\* The loop of from_fileobj from stream index i with the lines acc collected:
\* the lines handed to parse_header, the number of stream lines consumed,
\* and whether decoding a line raised.
RECURSIVE ReadLoop(_, _, _)
ReadLoop(stream, i, acc) ==
    IF i > Len(stream) THEN [lines |-> acc, n |-> i - 1, err |-> "none"]
    ELSE IF IsUndecodable(stream[i])
    THEN [lines |-> acc, n |-> i, err |-> "UnicodeDecodeError"]
    ELSE IF IsComment(stream[i]) \/ IsBlank(stream[i])
    THEN ReadLoop(stream, i + 1, acc)
    ELSE IF StartsWithDATA(stream[i]) \/ Len(acc) + 1 >= HeaderLineCap
    THEN [lines |-> Append(acc, stream[i]), n |-> i, err |-> "none"]
    ELSE ReadLoop(stream, i + 1, Append(acc, stream[i]))

\* The file position after n stream lines were consumed: header lines, and
\* rows (text) or bytes (binary) of the point block.
PosAfter(c, n) ==
    [line |-> Min(n, Len(c.hdr)),
     body |-> IF n <= Len(c.hdr) THEN 0
              ELSE IF c.body.kind = "txt" THEN n - Len(c.hdr)
              ELSE c.body.nbytes]

-----------------------------------------------------------------------------
(* MetaData.parse_header                                                   *)

\* re.match(HEADER_PATTERN, line): a word, white space, at least one value
\* character.
IsWord(s) == s \notin {"", "#", "<text>", "<bytes>"}

Matches(line) == IsWord(line.key) /\ Len(line.val) >= 1

\* The placeholder name of an anonymous field, for one outcome of
\* random.choices.
Placeholder(suffix) == "#$%&~~" \o suffix

RandSuffixes == {"aaaaaa", "aaaaab"}

EmptyHeader ==
    [has |-> {}, version |-> "", data |-> "", width |-> 0, height |-> 0,
     points |-> 0, fields |-> <<>>, type |-> <<>>, size |-> <<>>,
     count |-> <<>>, viewpoint |-> <<>>, err |-> "none"]

AllInt(toks) == \A i \in 1..Len(toks) : IsInt(toks[i])

\* One iteration of the loop of parse_header on the dict h; sfx[i] is the
\* random suffix drawn for the i-th token of a FIELDS line.
ParseLine(h, line, sfx) ==
    IF h.err # "none" THEN h
    ELSE IF IsComment(line) \/ LineLen(line) < 2 THEN h
    ELSE IF ~Matches(line) THEN h
    ELSE
      LET value == line.val
          key == Lower(line.key)
          got == [h EXCEPT !.has = @ \cup {key}]
      IN  CASE key = "version" -> [got EXCEPT !.version = value[1]]
            [] key = "data" -> [got EXCEPT !.data = value[1]]
            [] key \in {"width", "height", "points"} ->
                 IF ~IsInt(value[1]) THEN [h EXCEPT !.err = "ValueError"]
                 ELSE [got EXCEPT ![key] = IntOf(value[1])]
            [] key = "fields" ->
                 [got EXCEPT !.fields =
                     [i \in 1..Len(value) |->
                         IF value[i] = "_" THEN Placeholder(sfx[i])
                         ELSE value[i]]]
            [] key = "type" -> [got EXCEPT !.type = value]
            [] key \in {"size", "count"} ->
                 IF ~AllInt(value) THEN [h EXCEPT !.err = "ValueError"]
                 ELSE [got EXCEPT ![key] =
                          [i \in 1..Len(value) |-> IntOf(value[i])]]
            [] key = "viewpoint" ->
                 IF ~AllInt(value) THEN [h EXCEPT !.err = "ValueError"]
                 ELSE [got EXCEPT !.viewpoint =
                          [i \in 1..Len(value) |-> IntOf(value[i])]]
            [] OTHER -> h

RECURSIVE ParseLines(_, _, _)
ParseLines(h, ls, sfx) ==
    IF ls = <<>> THEN h
    ELSE ParseLines(ParseLine(h, Head(ls), sfx), Tail(ls), sfx)

DefaultViewpoint == <<0, 0, 0, 1, 0, 0, 0>>

\* The field declarations of class MetaData, as pydantic validates them.
Validates(h) ==
    /\ {"fields", "size", "type", "count", "points", "width"} \subseteq h.has
    /\ \A i \in 1..Len(h.size) : h.size[i] > 0
    /\ \A i \in 1..Len(h.type) : h.type[i] \in {"F", "U", "I"}
    /\ \A i \in 1..Len(h.count) : h.count[i] > 0
    /\ h.points >= 0
    /\ h.width >= 0
    /\ "height" \in h.has => h.height >= 0
    /\ "viewpoint" \in h.has => Len(h.viewpoint) = 7
    /\ "data" \in h.has => h.data \in {"ascii", "binary"}

\* MetaData(**_header): the validated record with the defaults filled in.
MetaData(h) ==
    [fields |-> h.fields, size |-> h.size, type |-> h.type, count |-> h.count,
     points |-> h.points, width |-> h.width,
     height |-> IF "height" \in h.has THEN h.height ELSE 1,
     version |-> IF "version" \in h.has THEN h.version ELSE "0.7",
     viewpoint |-> IF "viewpoint" \in h.has THEN h.viewpoint
                   ELSE DefaultViewpoint,
     data |-> IF "data" \in h.has THEN h.data ELSE "binary"]

NoMetaData ==
    [fields |-> <<>>, size |-> <<>>, type |-> <<>>, count |-> <<>>,
     points |-> 0, width |-> 0, height |-> 0, version |-> "",
     viewpoint |-> <<>>, data |-> ""]

\* parse_header(lines) for the suffixes sfx: the MetaData, or the exception.
parse_header(ls, sfx) ==
    LET h == ParseLines(EmptyHeader, ls, sfx)
    IN  IF h.err # "none" THEN [err |-> h.err, md |-> NoMetaData]
        ELSE IF ~Validates(h) THEN [err |-> "ValidationError", md |-> NoMetaData]
        ELSE [err |-> "none", md |-> MetaData(h)]

-----------------------------------------------------------------------------
(* MetaData.build_dtype                                                    *)

\* The keys of PCD_TYPE_TO_NUMPY_TYPE.
SupportedPairs ==
    {<<"F", 4>>, <<"F", 8>>,
     <<"U", 1>>, <<"U", 2>>, <<"U", 4>>, <<"U", 8>>,
     <<"I", 1>>, <<"I", 2>>, <<"I", 4>>, <<"I", 8>>}

\* f"{i:04d}"
Pad4(k) ==
    IF k < 10 THEN "000" \o ToString(k)
    ELSE IF k < 100 THEN "00" \o ToString(k)
    ELSE IF k < 1000 THEN "0" \o ToString(k)
    ELSE ToString(k)

\* A column name whose repeat index is not padded to four digits.
ColNameUnpadded(field, k) == field \o "__" \o ToString(k)

\* f"{field}__{i:04d}"
ColName(field, k) == field \o "__" \o Pad4(k)

\* A build_dtype that emits one column for a repeated field.
FieldColumnsUnrepeated(field, kind, size, count) ==
    << [name |-> field, kind |-> kind, size |-> size] >>

\* The columns one header field contributes.
FieldColumns(field, kind, size, count) ==
    IF count = 1 THEN << [name |-> field, kind |-> kind, size |-> size] >>
    ELSE [k \in 1..count |->
            [name |-> ColName(field, k - 1), kind |-> kind, size |-> size]]

\* The loop of build_dtype from field i with the columns cols collected.
RECURSIVE BuildColumns(_, _, _)
BuildColumns(md, i, cols) ==
    IF i > Len(md.fields) THEN [err |-> "none", cols |-> cols]
    ELSE IF i > Len(md.type) \/ i > Len(md.size)
    THEN [err |-> "IndexError", cols |-> <<>>]
    ELSE IF <<md.type[i], md.size[i]>> \notin SupportedPairs
    THEN [err |-> "KeyError", cols |-> <<>>]
    ELSE IF i > Len(md.count) THEN [err |-> "IndexError", cols |-> <<>>]
    ELSE BuildColumns(md, i + 1,
            cols \o FieldColumns(md.fields[i], md.type[i], md.size[i],
                                 md.count[i]))

Distinct(s) == \A i, j \in 1..Len(s) : s[i] = s[j] => i = j

ColumnNames(cols) == [j \in 1..Len(cols) |-> cols[j].name]

\* build_dtype(): the columns in order, or the exception; np.dtype refuses
\* a list that names a column twice.
build_dtype(md) ==
    LET b == BuildColumns(md, 1, <<>>)
    IN  IF b.err # "none" THEN b
        ELSE IF ~Distinct(ColumnNames(b.cols))
        THEN [err |-> "ValueError", cols |-> <<>>]
        ELSE b

\* dtype.itemsize of the packed record.
itemsize(cols) == SumSeq([j \in 1..Len(cols) |-> cols[j].size])

-----------------------------------------------------------------------------
(* _parse_pc_data                                                          *)

RECURSIVE BytesOfLines(_)
BytesOfLines(ls) ==
    IF ls = <<>> THEN 0 ELSE LineBytes(Head(ls)) + BytesOfLines(Tail(ls))

\* The lines of the file that position pos has not consumed.
LinesFrom(c, pos) ==
    SubSeq(c.hdr, pos.line + 1, Len(c.hdr))
    \o (IF c.body.kind = "txt"
        THEN SubSeq(c.body.rows, pos.body + 1, Len(c.body.rows))
        ELSE <<>>)

\* The bytes of the file after position pos.
BytesFrom(c, pos) ==
    BytesOfLines(LinesFrom(c, pos))
    + (IF c.body.kind = "bin" THEN c.body.nbytes - pos.body ELSE 0)

NoData == [n |-> 0, nread |-> 0, start |-> [line |-> 0, body |-> 0]]

\* buffer = fp.read(points * itemsize); np.frombuffer(buffer, dtype)
ReadBinary(c, pos, md, cols) ==
    LET got == Min(md.points * itemsize(cols), BytesFrom(c, pos))
    IN  IF got % itemsize(cols) # 0
        THEN [err |-> "ValueError", data |-> NoData]
        ELSE [err |-> "none",
              data |-> [n |-> got \div itemsize(cols), nread |-> got,
                        start |-> pos]]

\* A line np.loadtxt can convert: numbers only, one per column.
IsNumericRow(line, ncols) ==
    /\ IsInt(line.key)
    /\ AllInt(line.val)
    /\ 1 + Len(line.val) = ncols

\* np.loadtxt(fp, dtype, delimiter=" "): every remaining line of the file
\* is a row, comment and empty lines aside.
ReadText(c, pos, md, cols) ==
    LET rest == SelectSeq(LinesFrom(c, pos),
                          LAMBDA l : ~IsComment(l) /\ ~IsBlank(l))
        junk == c.body.kind = "bin" /\ c.body.nbytes - pos.body > 0
    IN  IF junk \/ \E i \in 1..Len(rest) : ~IsNumericRow(rest[i], Len(cols))
        THEN [err |-> "ValueError", data |-> NoData]
        ELSE [err |-> "none",
              data |-> [n |-> Len(rest), nread |-> BytesFrom(c, pos),
                        start |-> pos]]

\* A _parse_pc_data that reads the point block whatever `points` is.
ReadPointsAlways(c, pos, md, cols) ==
    IF md.data = "ascii" THEN ReadText(c, pos, md, cols)
    ELSE ReadBinary(c, pos, md, cols)

\* The branch of _parse_pc_data after the layout was built.
ReadPoints(c, pos, md, cols) ==
    IF md.points > 0
    THEN IF md.data = "ascii" THEN ReadText(c, pos, md, cols)
         ELSE ReadBinary(c, pos, md, cols)
    ELSE [err |-> "none", data |-> [NoData EXCEPT !.start = pos]]

-----------------------------------------------------------------------------
(* PointCloud                                                              *)

\* The property PointCloud.fields.
RECURSIVE ExpandFields(_, _, _)
ExpandFields(fields, count, i) ==
    IF i > Len(fields) \/ i > Len(count) THEN <<>>
    ELSE (IF count[i] = 1 THEN <<fields[i]>>
          ELSE [k \in 1..count[i] |-> ColName(fields[i], k - 1)])
         \o ExpandFields(fields, count, i + 1)

CloudFields(md) == ExpandFields(md.fields, md.count, 1)

NoMatrix == [nrows |-> 0, ncols |-> 0, rows |-> <<>>]

\* PointCloud.numpy(req): the matrix whose row r, column k is the value of
\* column req[k] in record r, or the exception.
numpy(md, cols, data, req) ==
    IF Len(req) = 0 THEN [err |-> "none", m |-> NoMatrix]
    ELSE IF md.points = 0
    THEN [err |-> "none", m |-> [nrows |-> 0, ncols |-> Len(req), rows |-> <<>>]]
    ELSE IF \E k \in 1..Len(req) : req[k] \notin Range(ColumnNames(cols))
    THEN [err |-> "ValueError", m |-> NoMatrix]
    ELSE [err |-> "none",
          m |-> [nrows |-> data.n, ncols |-> Len(req),
                 rows |-> [r \in 1..data.n |->
                             [k \in 1..Len(req) |-> <<r, req[k]>>]]]]

-----------------------------------------------------------------------------
(* pcd_to_csv                                                              *)

selected_fields == <<"x", "y", "z", "intensity">>

\* [fields.index(field) for field in selected_fields if field in fields]
selected_indices(fields) ==
    LET present == SelectSeq(selected_fields, LAMBDA f : f \in Range(fields))
    IN  [k \in 1..Len(present) |-> IndexOf(fields, present[k])]

\* points[:, selected_indices]
selected_points(m, fields) ==
    LET ix == selected_indices(fields)
    IN  [r \in 1..m.nrows |-> [k \in 1..Len(ix) |-> m.rows[r][ix[k]]]]

NoCsv == [exists |-> FALSE, header |-> <<>>, rows |-> <<>>]

\* The file pcd_to_csv writes from the matrix of all columns.
CsvOf(m, fields) ==
    [exists |-> TRUE, header |-> selected_fields,
     rows |-> selected_points(m, fields)]

-----------------------------------------------------------------------------
(* The containers the model reads.  A container is written from a         *)
(* description: the field names, the <<TYPE, SIZE, COUNT>> tokens of each  *)
(* field, a token dropped from or added to one of the four lists, the      *)
(* declared number of points, the DATA value, the style of the keys, the   *)
(* optional lines present, the lines inserted before header line `at`,     *)
(* and the point block.                                                    *)

Line(key, val) == [key |-> key, val |-> val]

Repeat(v, n) == [i \in 1..n |-> v]

\* The tokens of one of the four per-field lines, with the defect applied.
Tokens(p, which, toks, more) ==
    IF p.defect = <<which, "drop">> THEN SubSeq(toks, 1, Len(toks) - 1)
    ELSE IF p.defect = <<which, "extra">> THEN Append(toks, more)
    ELSE toks

ExtraLine(kind, style) ==
    IF kind = "#" THEN Line("#", <<"comment">>)
    ELSE Line(Styled(kind, style), <<"1">>)

\* The header lines in the order PCD files are written.
HeaderLines(p) ==
    LET K(key) == Styled(key, p.style)
        n == Len(p.names)
        std ==
            (IF "version" \in p.optional THEN <<Line(K("version"), <<"0.7">>)>>
             ELSE <<>>)
            \o << Line(K("fields"), Tokens(p, "fields", p.names, "w")),
                  Line(K("size"),
                       Tokens(p, "size", [i \in 1..n |-> p.attrs[i][2]], "4")),
                  Line(K("type"),
                       Tokens(p, "type", [i \in 1..n |-> p.attrs[i][1]], "F")),
                  Line(K("count"),
                       Tokens(p, "count", [i \in 1..n |-> p.attrs[i][3]], "1")),
                  Line(K("width"), <<p.points>>) >>
            \o (IF "height" \in p.optional THEN <<Line(K("height"), <<"1">>)>>
                ELSE <<>>)
            \o (IF "viewpoint" \in p.optional
                THEN <<Line(K("viewpoint"),
                            <<"0", "0", "0", "1", "0", "0", "0">>)>>
                ELSE <<>>)
            \o << Line(K("points"), <<p.points>>) >>
            \o (IF p.data = "none" THEN <<>>
                ELSE <<Line(K("data"), <<p.data>>)>>)
        at == IF p.at = "first" THEN 1 ELSE Len(std)
    IN  SubSeq(std, 1, at - 1)
        \o [i \in 1..Len(p.extras) |-> ExtraLine(p.extras[i], p.style)]
        \o SubSeq(std, at, Len(std))

\* The stride and the column count the description declares.
DeclaredStride(p) ==
    SumSeq([i \in 1..Len(p.attrs) |->
               IntOf(p.attrs[i][2]) * IntOf(p.attrs[i][3])])

DeclaredColumns(p) ==
    SumSeq([i \in 1..Len(p.attrs) |-> IntOf(p.attrs[i][3])])

DeclaredPoints(p) == IF IsInt(p.points) THEN Max(IntOf(p.points), 0) ELSE 0

\* The point block: binary, short of or beyond the declared size; or text
\* rows of numbers.
PointBlock(p) ==
    IF p.block = "bin"
    THEN [kind |-> "bin",
          nbytes |-> Max(0, (DeclaredPoints(p) - p.missRecs) * DeclaredStride(p)
                            - p.missBytes) + p.moreBytes,
          utf8 |-> p.utf8, rows |-> <<>>]
    ELSE [kind |-> "txt", nbytes |-> 0, utf8 |-> TRUE,
          rows |-> Repeat(Line("0", Repeat("0", DeclaredColumns(p) - 1
                                                - p.missTokens)),
                          p.rows)]

Container(p) == [hdr |-> HeaderLines(p), body |-> PointBlock(p)]

F4 == <<"F", "4", "1">>

Standard ==
    [names |-> <<"x", "y", "z", "intensity">>, attrs |-> Repeat(F4, 4),
     defect |-> <<"none", "none">>, points |-> "1", data |-> "binary",
     style |-> "upper", optional |-> {"version", "height", "viewpoint"},
     extras |-> <<>>, at |-> "first", block |-> "bin", missRecs |-> 0,
     missBytes |-> 0, moreBytes |-> 0, utf8 |-> FALSE, rows |-> 0,
     missTokens |-> 0]

TypeTokens == {"F", "U", "I"}

SizeTokens == {"1", "2", "4", "8"}

CountTokens == {"1", "2"}

FieldAttrs == TypeTokens \X SizeTokens \X CountTokens

U1x2 == <<"U", "1", "2">>

F2 == <<"F", "2", "1">>

\* Fields alternating between two attribute triples.
Pattern(a1, a2, n) == [i \in 1..n |-> IF i % 2 = 1 THEN a1 ELSE a2]

PlainNames(n) == SubSeq(selected_fields, 1, n)

\* Layouts: every attribute triple, alone and next to another one.
LayoutFamily ==
    {[Standard EXCEPT !.names = PlainNames(n), !.attrs = Pattern(a1, a2, n),
                      !.points = ToString(k)] :
        n \in 1..Len(selected_fields), a1 \in FieldAttrs,
        a2 \in {F4, U1x2, F2}, k \in 0..MaxPoints}

ShortNames == {"x", "intensity", "_"}

NameLists ==
    (SeqsUpTo(ShortNames, MaxFields) \ {<<>>})
    \cup {<<"x", "y", "z">>, selected_fields}

\* Field names: missing, reordered, repeated and anonymous fields.
NameFamily ==
    {[Standard EXCEPT !.names = ns, !.attrs = Pattern(F4, a2, Len(ns)),
                      !.points = k] :
        ns \in NameLists, a2 \in {F4, U1x2}, k \in {"0", "1"}}

\* Token counts: one of the four lists a token short or a token long.
DefectFamily ==
    {[Standard EXCEPT !.names = PlainNames(n), !.attrs = Pattern(F4, a2, n),
                      !.defect = <<l, how>>] :
        n \in {1, 2, 4}, a2 \in {F4, F2},
        l \in {"fields", "size", "type", "count"}, how \in {"drop", "extra"}}

\* Tokens and lines the validation refuses, and a header with no DATA line.
TokenFamily ==
    {[Standard EXCEPT !.attrs = Repeat(<<"X", "4", "1">>, 4)],
     [Standard EXCEPT !.attrs = Repeat(<<"F", "0", "1">>, 4)],
     [Standard EXCEPT !.attrs = Repeat(<<"F", "4", "0">>, 4)],
     [Standard EXCEPT !.points = "-1"],
     [Standard EXCEPT !.points = "many"],
     [Standard EXCEPT !.data = "binary_compressed"],
     [Standard EXCEPT !.data = "none"]}

Anonymous == [Standard EXCEPT !.names = <<"x", "_">>, !.attrs = <<F4, U1x2>>]

\* Point blocks: short, exact and long, binary and text, under either
\* declared encoding.
BodyFamily ==
    {[base EXCEPT !.points = ToString(k), !.data = d, !.block = "bin",
                  !.missRecs = mr, !.missBytes = mb, !.moreBytes = xb] :
        base \in {Standard, Anonymous}, k \in 0..MaxPoints,
        d \in {"binary", "ascii"}, mr \in 0..MaxPoints, mb \in 0..1,
        xb \in 0..1}
    \cup
    {[base EXCEPT !.points = ToString(k), !.data = d, !.block = "txt",
                  !.rows = nr, !.missTokens = mt] :
        base \in {Standard, Anonymous}, k \in 0..MaxPoints,
        d \in {"binary", "ascii"}, nr \in 0..(MaxPoints + 1), mt \in 0..1}

ExtraKinds == {"extension", "dataset", "#"}

OptionalSets ==
    {{}, {"version"}, {"version", "height"}, {"version", "height", "viewpoint"}}

\* Header lines: key styles, optional lines, inserted lines.
LineFamily ==
    {[Standard EXCEPT !.style = st, !.optional = opt, !.extras = ex,
                      !.at = at, !.data = d,
                      !.block = IF d = "ascii" THEN "txt" ELSE "bin",
                      !.rows = 1] :
        st \in {"upper", "lower", "mixed"}, opt \in OptionalSets,
        ex \in SeqsUpTo(ExtraKinds, MaxExtra), at \in {"first", "last"},
        d \in {"binary", "ascii"}}
    \cup
    {[Standard EXCEPT !.style = st, !.optional = opt, !.utf8 = TRUE,
                      !.points = k, !.moreBytes = xb] :
        st \in {"upper", "lower", "mixed"}, opt \in OptionalSets,
        k \in {"0", "1"}, xb \in 0..1}

Descriptions ==
    LayoutFamily \cup NameFamily \cup DefectFamily \cup TokenFamily
    \cup BodyFamily \cup LineFamily

Containers == {Container(p) : p \in Descriptions}

NoContainer ==
    [hdr |-> <<>>,
     body |-> [kind |-> "bin", nbytes |-> 0, utf8 |-> FALSE, rows |-> <<>>]]

\* The names PointCloud.numpy is asked for.
Requests == SeqsUpTo({"x", "nosuch"}, MaxRequest)

-----------------------------------------------------------------------------
(* The state machine: main, and inside its loop the steps of pcd_to_csv    *)

NoPos == [line |-> 0, body |-> 0]

NoResult == [err |-> "none", m |-> NoMatrix]

NoErr == [at |-> "none", exc |-> "none"]

\* The exception exc, or none, of the step named at.
Raised(at, exc) == IF exc = "none" THEN NoErr ELSE [at |-> at, exc |-> exc]

\* The per-file variables before a file is opened.
Fresh ==
    /\ lines' = <<>>
    /\ fpos' = NoPos
    /\ metadata' = NoMetaData
    /\ dtype' = <<>>
    /\ pc_data' = NoData
    /\ request' = <<>>
    /\ matrix' = NoResult
    /\ csv' = NoCsv
    /\ err' = NoErr

\* The locals of calculate_plant_height_and_plot before they are bound.
NoAbove == [X |-> <<>>, Y |-> <<>>, Z |-> <<>>, intensities |-> <<>>]

NoBands == [p50 |-> 0, p60 |-> 0, p70 |-> 0, p80 |-> 0, p90 |-> 0]

NoMeans ==
    [p50 |-> <<0, 1>>, p60 |-> <<0, 1>>, p70 |-> <<0, 1>>, p80 |-> <<0, 1>>,
     p90 |-> <<0, 1>>]

NoBox == [area |-> 0, volume |-> 0]

CropUnbound ==
    /\ table = <<>>
    /\ zden = 1
    /\ X = <<>>
    /\ Y = <<>>
    /\ Z = <<>>
    /\ intensities = <<>>
    /\ ground_points = <<>>
    /\ selected_ground_points = <<>>
    /\ ground_level = 0
    /\ dark_mask = <<>>
    /\ above_015 = NoAbove
    /\ pct = NoBands
    /\ count_top = NoBands
    /\ avg_int = NoMeans
    /\ bounding_box = NoBox
    /\ p99_top_z = 0
    /\ printed = <<>>
    /\ returned = <<>>
    /\ cerr = NoErr

Init ==
    /\ cstage = "unstarted"
    /\ txt = <<>>
    /\ CropUnbound
    /\ idx = 0
    /\ attempts \in {[f \in 1..n |-> 0] : n \in 0..MaxFiles}
    /\ reports = <<>>
    /\ exitStatus = "unstarted"
    /\ container = NoContainer
    /\ stage = "idle"
    /\ lines = <<>>
    /\ fpos = NoPos
    /\ metadata = NoMetaData
    /\ dtype = <<>>
    /\ pc_data = NoData
    /\ request = <<>>
    /\ matrix = NoResult
    /\ csv = NoCsv
    /\ err = NoErr

NumFiles == Len(attempts)

\* main: len(sys.argv) != 3, the usage message and sys.exit(-1).
MainUsage ==
    /\ exitStatus = "unstarted"
    /\ exitStatus' = "exit(-1)"
    /\ UNCHANGED <<idx, attempts, reports, container, stage, lines, fpos,
                   metadata, dtype, pc_data, request, matrix, csv, err>>
    /\ UNCHANGED cropvars

\* main: the arguments are accepted and the output directory is made.
MainStart ==
    /\ exitStatus = "unstarted"
    /\ exitStatus' = "running"
    /\ UNCHANGED <<idx, attempts, reports, container, stage, lines, fpos,
                   metadata, dtype, pc_data, request, matrix, csv, err>>
    /\ UNCHANGED cropvars

\* main: the loop takes the next file of the glob and calls pcd_to_csv,
\* which opens it.
NextFile ==
    /\ exitStatus = "running"
    /\ stage = "idle"
    /\ idx < NumFiles
    /\ idx' = idx + 1
    /\ attempts' = [attempts EXCEPT ![idx + 1] = @ + 1]
    /\ container' \in Containers
    /\ stage' = "opened"
    /\ Fresh
    /\ UNCHANGED <<reports, exitStatus>>
    /\ UNCHANGED cropvars

\* from_fileobj: the loop that collects the header lines.
ReadHeader ==
    /\ stage = "opened"
    /\ LET r == ReadLoop(Stream(container), 1, <<>>)
       IN  /\ lines' = r.lines
           /\ fpos' = PosAfter(container, r.n)
           /\ err' = Raised("ReadHeader", r.err)
           /\ stage' = IF r.err = "none" THEN "header" ELSE "failed"
    /\ UNCHANGED <<idx, attempts, reports, exitStatus, container, metadata,
                   dtype, pc_data, request, matrix, csv>>
    /\ UNCHANGED cropvars

\* The token positions of FIELDS lines that hold an anonymous field.
AnonPositions(ls) ==
    UNION {{i \in 1..Len(ls[j].val) : ls[j].val[i] = "_"} :
              j \in {k \in 1..Len(ls) : Lower(ls[k].key) = "fields"}}

\* The outcomes of random.choices for the anonymous fields.
SuffixChoices(ls) == [AnonPositions(ls) -> RandSuffixes]

\* from_fileobj: metadata = MetaData.parse_header(lines)
ParseHeader ==
    /\ stage = "header"
    /\ \E sfx \in SuffixChoices(lines) :
        LET r == parse_header(lines, sfx)
        IN  /\ metadata' = r.md
            /\ err' = Raised("ParseHeader", r.err)
            /\ stage' = IF r.err = "none" THEN "parsed" ELSE "failed"
    /\ UNCHANGED <<idx, attempts, reports, exitStatus, container, lines, fpos,
                   dtype, pc_data, request, matrix, csv>>
    /\ UNCHANGED cropvars

\* _parse_pc_data: dtype = metadata.build_dtype()
BuildLayout ==
    /\ stage = "parsed"
    /\ LET b == build_dtype(metadata)
       IN  /\ dtype' = b.cols
           /\ err' = Raised("BuildLayout", b.err)
           /\ stage' = IF b.err = "none" THEN "layout" ELSE "failed"
    /\ UNCHANGED <<idx, attempts, reports, exitStatus, container, lines, fpos,
                   metadata, pc_data, request, matrix, csv>>
    /\ UNCHANGED cropvars

\* _parse_pc_data: the point block is read; then from_fileobj rewinds the
\* file and returns the PointCloud.
ReadBody ==
    /\ stage = "layout"
    /\ LET r == ReadPoints(container, fpos, metadata, dtype)
       IN  /\ pc_data' = r.data
           /\ err' = Raised("ReadBody", r.err)
           /\ stage' = IF r.err = "none" THEN "cloud" ELSE "failed"
           /\ fpos' = IF r.err = "none" THEN NoPos ELSE fpos
    /\ UNCHANGED <<idx, attempts, reports, exitStatus, container, lines,
                   metadata, dtype, request, matrix, csv>>
    /\ UNCHANGED cropvars

\* A caller asks the PointCloud for the columns req.
Query(req) ==
    /\ stage = "cloud"
    /\ request' = req
    /\ matrix' = numpy(metadata, dtype, pc_data, req)
    /\ stage' = "queried"
    /\ UNCHANGED <<idx, attempts, reports, exitStatus, container, lines, fpos,
                   metadata, dtype, pc_data, csv, err>>
    /\ UNCHANGED cropvars

\* pcd_to_csv: fields = point_cloud.fields; points = point_cloud.numpy(fields)
ToMatrix ==
    /\ stage \in {"cloud", "queried"}
    /\ LET r == numpy(metadata, dtype, pc_data, CloudFields(metadata))
       IN  /\ request' = CloudFields(metadata)
           /\ matrix' = r
           /\ err' = Raised("ToMatrix", r.err)
           /\ stage' = IF r.err = "none" THEN "matrix" ELSE "failed"
    /\ UNCHANGED <<idx, attempts, reports, exitStatus, container, lines, fpos,
                   metadata, dtype, pc_data, csv>>
    /\ UNCHANGED cropvars

\* pcd_to_csv: the columns are selected and the CSV file is written.
WriteCsv ==
    /\ stage = "matrix"
    /\ csv' = CsvOf(matrix.m, request)
    /\ stage' = "written"
    /\ UNCHANGED <<idx, attempts, reports, exitStatus, container, lines, fpos,
                   metadata, dtype, pc_data, request, matrix, err>>
    /\ UNCHANGED cropvars

\* A main without the try/except: the exception of pcd_to_csv ends the
\* process.
ReportOrDie ==
    /\ stage \in {"written", "failed"}
    /\ reports' = IF stage = "written"
                  THEN Append(reports, <<idx, "Converted">>) ELSE reports
    /\ exitStatus' = IF stage = "written" THEN exitStatus ELSE "exit(1)"
    /\ stage' = "idle"
    /\ container' = NoContainer
    /\ Fresh
    /\ UNCHANGED <<idx, attempts>>
    /\ UNCHANGED cropvars

\* main: print("Converted ...") after pcd_to_csv returned, or the except
\* clause prints "Failed to convert ..."; the loop goes on.
Report ==
    /\ stage \in {"written", "failed"}
    /\ reports' = Append(reports,
                         <<idx, IF stage = "written" THEN "Converted"
                                ELSE "Failed">>)
    /\ stage' = "idle"
    /\ container' = NoContainer
    /\ Fresh
    /\ UNCHANGED <<idx, attempts, exitStatus>>
    /\ UNCHANGED cropvars

\* main: the glob is exhausted and the interpreter exits.
MainExit ==
    /\ exitStatus = "running"
    /\ stage = "idle"
    /\ idx = NumFiles
    /\ exitStatus' = "exit(0)"
    /\ UNCHANGED <<idx, attempts, reports, container, stage, lines, fpos,
                   metadata, dtype, pc_data, request, matrix, csv, err>>
    /\ UNCHANGED cropvars

Next ==
    \/ MainUsage
    \/ MainStart
    \/ NextFile
    \/ ReadHeader
    \/ ParseHeader
    \/ BuildLayout
    \/ ReadBody
    \/ \E req \in Requests : Query(req)
    \/ ToMatrix
    \/ WriteCsv
    \/ Report
    \/ MainExit

Spec == Init /\ [][Next]_vars

-----------------------------------------------------------------------------
(* PointCloud.from_fileobj as a function of the container                  *)

\* from_fileobj(fp) for the suffixes sfx: the exception and the step that
\* raised it, the MetaData and the decoded point block.
from_fileobj(c, sfx) ==
    LET r == ReadLoop(Stream(c), 1, <<>>)
        h == parse_header(r.lines, sfx)
        b == build_dtype(h.md)
        d == ReadPoints(c, PosAfter(c, r.n), h.md, b.cols)
    IN  IF r.err # "none"
        THEN [err |-> Raised("ReadHeader", r.err), md |-> NoMetaData,
              data |-> NoData]
        ELSE IF h.err # "none"
        THEN [err |-> Raised("ParseHeader", h.err), md |-> NoMetaData,
              data |-> NoData]
        ELSE IF b.err # "none"
        THEN [err |-> Raised("BuildLayout", b.err), md |-> h.md,
              data |-> NoData]
        ELSE [err |-> Raised("ReadBody", d.err), md |-> h.md, data |-> d.data]

\* The results from_fileobj can have on a container, one per outcome of
\* the random suffixes.
Outcomes(c) ==
    {from_fileobj(c, sfx) :
        sfx \in SuffixChoices(ReadLoop(Stream(c), 1, <<>>).lines)}

-----------------------------------------------------------------------------
(* Properties                                                              *)

\* parse_header returned a MetaData for the current file.
HasMetaData == metadata # NoMetaData

\* from_fileobj returned a PointCloud for the current file.
HasCloud == stage \in {"cloud", "queried", "matrix", "written"}

\* The number of tokens of the header line with the given key, as
\* parse_header sees the header (the last such line counts).
TokenCount(ls, key) ==
    LET at == {j \in 1..Len(ls) : Matches(ls[j]) /\ Lower(ls[j].key) = key}
    IN  IF at = {} THEN 0
        ELSE Len(ls[CHOOSE j \in at : \A k \in at : k <= j].val)

EqualTokenCounts(ls) ==
    /\ TokenCount(ls, "fields") = TokenCount(ls, "size")
    /\ TokenCount(ls, "size") = TokenCount(ls, "type")
    /\ TokenCount(ls, "type") = TokenCount(ls, "count")

\* C1: a header whose FIELDS, SIZE, TYPE and COUNT lines differ in their
\* number of tokens yields no MetaData, and every MetaData produced has
\* fields, size, type and count of one length.
C1_TokenCountsAgree ==
    HasMetaData =>
        /\ EqualTokenCounts(lines)
        /\ Len(metadata.fields) = Len(metadata.size)
        /\ Len(metadata.size) = Len(metadata.type)
        /\ Len(metadata.type) = Len(metadata.count)

\* The header declares for some field a (TYPE, SIZE) pair that is not
\* supported.
DeclaresUnsupportedPair(md) ==
    \E i \in 1..Len(md.fields) :
        /\ i <= Len(md.type)
        /\ i <= Len(md.size)
        /\ <<md.type[i], md.size[i]>> \notin SupportedPairs

\* C2: a header with an unsupported (TYPE, SIZE) pair is rejected when
\* the header is parsed: no MetaData is produced for it, so that neither
\* the layout is built nor the point block read.
C2_UnsupportedPairRejectedAtParse ==
    HasMetaData => ~DeclaresUnsupportedPair(metadata)

\* The bytes of the file from the position where the point block was read.
BlockBytes == BytesFrom(container, pc_data.start)

\* C3: a binary container whose point block holds fewer than points x
\* stride bytes yields no PointCloud.
C3_ShortBlockRejected ==
    (HasCloud /\ metadata.data = "binary") =>
        BlockBytes >= metadata.points * itemsize(dtype)

\* A valid header: the four per-field sequences have one length, every
\* (TYPE, SIZE) pair is supported and the field names are unique.
ValidHeader(md) ==
    /\ Len(md.fields) = Len(md.size)
    /\ Len(md.size) = Len(md.type)
    /\ Len(md.type) = Len(md.count)
    /\ \A i \in 1..Len(md.fields) : <<md.type[i], md.size[i]>> \in SupportedPairs
    /\ Distinct(md.fields)

\* The sum over the fields of size[i] x count[i].
StrideOf(md) == SumSeq([i \in 1..Len(md.fields) |-> md.size[i] * md.count[i]])

\* build_dtype was called for the current file and returned.
LayoutBuilt == HasMetaData /\ stage # "parsed" /\ err.at # "BuildLayout"

\* The point block was read, or the read raised.
ReadDone == LayoutBuilt /\ stage # "layout"

\* The position of the file when the point block was read.
ReadStart == IF HasCloud THEN pc_data.start ELSE fpos

\* C4: for a valid header the layout is built, its stride is the sum
\* over the fields of size[i] x count[i], and a binary block of exactly
\* points x stride bytes is decoded without error into `points` records.
C4_StrideAndExactDecode ==
    (HasMetaData /\ ValidHeader(metadata)) =>
        /\ err.at # "BuildLayout"
        /\ LayoutBuilt => itemsize(dtype) = StrideOf(metadata)
        /\ ( /\ ReadDone
             /\ metadata.data = "binary"
             /\ BytesFrom(container, ReadStart)
                   = metadata.points * StrideOf(metadata) )
           => (HasCloud /\ pc_data.n = metadata.points)

\* A cloud of two records whose fields differ in size and one of which is
\* repeated, decoded from a block of exactly points x stride bytes.
C4_Witness ==
    /\ HasCloud
    /\ ValidHeader(metadata)
    /\ container.body.kind = "bin"
    /\ metadata.data = "binary"
    /\ metadata.points = 2
    /\ \E i \in 1..Len(metadata.count) : metadata.count[i] > 1
    /\ \E i, j \in 1..Len(metadata.size) : metadata.size[i] # metadata.size[j]
    /\ BlockBytes = metadata.points * StrideOf(metadata)
    /\ pc_data.n = 2

\* C5: when the header declares POINTS 0, reading the point block raises
\* nothing and consumes no byte, whatever the encoding and whatever follows
\* the header (for a valid header no step from the layout on raises); the
\* cloud has no record, numpy returns a matrix of zero rows with one column
\* per requested name, and the CSV written holds the header row alone.
C5_EmptyCloud ==
    (HasMetaData /\ metadata.points = 0) =>
        /\ err.at \notin {"ReadBody", "ToMatrix"}
        /\ ValidHeader(metadata) => err = NoErr
        /\ HasCloud => (pc_data.n = 0 /\ pc_data.nread = 0)
        /\ stage \in {"queried", "matrix", "written"} =>
              /\ matrix.err = "none"
              /\ matrix.m.nrows = 0
              /\ matrix.m.rows = <<>>
              /\ matrix.m.ncols = Len(request)
        /\ stage = "written" =>
              csv = [exists |-> TRUE, header |-> selected_fields, rows |-> <<>>]

\* A container declaring POINTS 0 and DATA ascii, with rows after the
\* header, was converted.
C5_Witness ==
    /\ stage = "written"
    /\ metadata.points = 0
    /\ metadata.data = "ascii"
    /\ Len(request) = 4
    /\ BlockBytes > 0
    /\ csv.rows = <<>>

\* C6: asking PointCloud.numpy for a name that is not one of the cloud's
\* expanded field names raises, also for a cloud of zero points and also
\* when other names asked for exist.
C6_UnknownNameRaises ==
    ( /\ stage = "queried"
      /\ \E k \in 1..Len(request) : request[k] \notin Range(CloudFields(metadata)) )
    => matrix.err # "none"

\* C7: the CSV written starts with the header row x,y,z,intensity and has
\* one row per decoded record, in order, whose k-th value is the record's
\* value of the k-th header column.
C7_CsvRowsMatchHeader ==
    stage = "written" =>
        /\ csv.header = selected_fields
        /\ Len(csv.rows) = pc_data.n
        /\ \A r \in 1..Len(csv.rows) :
              /\ Len(csv.rows[r]) = Len(csv.header)
              /\ \A k \in 1..Len(csv.header) :
                    k <= Len(csv.rows[r]) => csv.rows[r][k] = <<r, csv.header[k]>>

\* from_fileobj has returned or raised for the current file.
FromFileobjDone ==
    \/ stage = "cloud"
    \/ stage = "failed" /\ err.at # "ToMatrix"

\* What from_fileobj did on the current file.
Outcome == [err |-> err, md |-> metadata, data |-> pc_data]

\* A key in upper case.
Upper(word) ==
    IF \E i \in 1..Len(KeyTable) : word \in Range(KeyTable[i])
    THEN KeyTable[CHOOSE i \in 1..Len(KeyTable) : word \in Range(KeyTable[i])][2]
    ELSE word

\* The container with every header key written in upper case.
UpperCased(c) ==
    [c EXCEPT !.hdr = [i \in 1..Len(c.hdr) |-> [c.hdr[i] EXCEPT !.key = Upper(@)]]]

\* C8: a container whose header keys are in lower or mixed case is read
\* to the metadata and the points of the same container with upper-case
\* keys.
C8_KeysCaseInsensitive ==
    FromFileobjDone => Outcome \in Outcomes(UpperCased(container))

RecognizedKeys ==
    {"version", "fields", "size", "type", "count", "width", "height",
     "points", "viewpoint", "data"}

\* A header line that is no comment and whose key is not recognized.
Unrecognized(line) ==
    /\ ~IsComment(line)
    /\ ~IsBlank(line)
    /\ Lower(line.key) \notin RecognizedKeys

\* The container without its unrecognized header lines.
Stripped(c) == [c EXCEPT !.hdr = SelectSeq(c.hdr, LAMBDA l : ~Unrecognized(l))]

NumUnrecognized(c) == Len(c.hdr) - Len(Stripped(c).hdr)

\* C9: unrecognized lines before the DATA line change neither the
\* metadata nor the place in the file where the point block is read from,
\* nor the points decoded.
C9_UnrecognizedLinesIgnored ==
    FromFileobjDone =>
        \E ref \in Outcomes(Stripped(container)) :
            /\ ref.md = metadata
            /\ ref.err = err
            /\ ref.data.n = pc_data.n
            /\ ref.data.nread = pc_data.nread
            /\ HasCloud =>
                  /\ pc_data.start.line = ref.data.start.line
                                             + NumUnrecognized(container)
                  /\ pc_data.start.body = ref.data.start.body

\* C10: in a run of main whose arguments were accepted, every file of
\* the glob is attempted exactly once, in order; each attempt is reported,
\* a failed one as "Failed", after which the loop goes on; the process
\* ends with status 0 once all files were attempted, and the failure
\* status belongs to the argument check alone.
C10_EveryFileAttemptedOnce ==
    /\ [](/\ \A f \in 1..NumFiles : attempts[f] = IF f <= idx THEN 1 ELSE 0
          /\ Len(reports) = IF stage = "idle" THEN idx ELSE idx - 1
          /\ \A i \in 1..Len(reports) : reports[i][1] = i
          /\ exitStatus \in {"unstarted", "running", "exit(0)", "exit(-1)"}
          /\ exitStatus = "exit(0)" => (idx = NumFiles /\ stage = "idle")
          /\ exitStatus = "exit(-1)" => (idx = 0 /\ reports = <<>>))
    /\ [][stage = "failed" =>
             /\ reports' = Append(reports, <<idx, "Failed">>)
             /\ stage' = "idle"
             /\ exitStatus' = "running"
             /\ idx' = idx]_vars
    /\ [][stage = "written" =>
             /\ reports' = Append(reports, <<idx, "Converted">>)
             /\ stage' = "idle"
             /\ idx' = idx]_vars

\* A run over two files that ended with status 0 after the first file
\* failed and the second was converted.
C10_Witness ==
    /\ exitStatus = "exit(0)"
    /\ NumFiles = 2
    /\ attempts = <<1, 1>>
    /\ reports = << <<1, "Failed">>, <<2, "Converted">> >>

-----------------------------------------------------------------------------
(* pcd_to_csv as a function of the container                               *)

\* pcd_to_csv(pcd_path, csv_path) for the suffixes sfx: the exception and
\* the step that raised it, and the file written.
pcd_to_csv(c, sfx) ==
    LET pc == from_fileobj(c, sfx)
        cols == build_dtype(pc.md).cols
        fields == CloudFields(pc.md)
        points == numpy(pc.md, cols, pc.data, fields)
    IN  IF pc.err # NoErr THEN [err |-> pc.err, csv |-> NoCsv]
        ELSE IF points.err # "none"
        THEN [err |-> Raised("ToMatrix", points.err), csv |-> NoCsv]
        ELSE [err |-> NoErr, csv |-> CsvOf(points.m, fields)]

\* The results pcd_to_csv can have on a container, one per outcome of the
\* random suffixes.
Conversions(c) ==
    {pcd_to_csv(c, sfx) :
        sfx \in SuffixChoices(ReadLoop(Stream(c), 1, <<>>).lines)}

\* pcd_to_csv has returned or raised for the current file.
PcdToCsvDone == stage \in {"written", "failed"}

\* C11: every run of pcd_to_csv on the container of the current file
\* writes the CSV file the current run wrote, whatever the random suffixes
\* of its anonymous fields.
C11_ConversionDeterministic ==
    PcdToCsvDone => \A again \in Conversions(container) : again.csv = csv

\* The number of columns the fields before field i contribute.
ColumnsBefore(md, i) == SumSeq([j \in 1..(i - 1) |-> md.count[j]])

\* C12: the layout lists the columns in header field order: a field of
\* count 1 gives one column with the field's name, a field of count n > 1
\* gives n consecutive columns named field__0000 ... field__(n-1), each of
\* the field's type and size; and for a valid header the column names of
\* the layout are the sequence PointCloud.fields.
C12_ColumnsInFieldOrder ==
    LayoutBuilt =>
        /\ Len(dtype) = ColumnsBefore(metadata, Len(metadata.fields) + 1)
        /\ \A i \in 1..Len(metadata.fields) :
              \A k \in 1..metadata.count[i] :
                 dtype[ColumnsBefore(metadata, i) + k]
                    = [name |-> IF metadata.count[i] = 1 THEN metadata.fields[i]
                                ELSE metadata.fields[i] \o "__000"
                                        \o ToString(k - 1),
                       kind |-> metadata.type[i],
                       size |-> metadata.size[i]]
        /\ ValidHeader(metadata) => ColumnNames(dtype) = CloudFields(metadata)

\* A layout built for a repeated field followed by a field of another type
\* that is not repeated.
C12_Witness ==
    /\ LayoutBuilt
    /\ ValidHeader(metadata)
    /\ \E i \in 1..(Len(metadata.fields) - 1) :
          /\ metadata.count[i] = 2
          /\ metadata.count[i + 1] = 1
          /\ metadata.type[i] # metadata.type[i + 1]
          /\ dtype[ColumnsBefore(metadata, i) + 2].name
                = metadata.fields[i] \o "__0001"
          /\ dtype[ColumnsBefore(metadata, i) + 3].name = metadata.fields[i + 1]

-----------------------------------------------------------------------------
(* calculate_plant_height_and_plot: numbers                                *)

MaxCloudPoints == 3

MaxCanopy == 3

\* ground_threshold = lowest_z + (0.231 * x_range), in thousandths.
SlopePerMille == 231

\* dark_threshold = 0.15
dark_threshold == 15

\* np.percentile(a, q) is a fraction over PctDen; q is given in half
\* percents: 100 for the 50th percentile, 199 for the 99.5th.
PctDen == 200

Column(rows, k) == [i \in 1..Len(rows) |-> rows[i][k]]

\* a[mask]
Masked(a, mask) ==
    LET RECURSIVE Pick(_)
        Pick(i) == IF i > Len(a) THEN <<>>
                   ELSE (IF mask[i] THEN <<a[i]>> ELSE <<>>) \o Pick(i + 1)
    IN  Pick(1)

\* np.min and np.max of a non-empty array.
MinOf(a) == CHOOSE v \in Range(a) : \A w \in Range(a) : v <= w

MaxOf(a) == CHOOSE v \in Range(a) : \A w \in Range(a) : v >= w

\* A percentile that takes the order statistic below the position, without
\* interpolating.
PercentileLower(a, q2) ==
    LET s == SortSeq(a, LAMBDA v, w : v < w)
    IN  s[((Len(s) - 1) * q2) \div PctDen + 1] * PctDen

\* A percentile that interpolates in the array as given, without sorting
\* it.
PercentileUnsorted(a, q2) ==
    LET n == Len(a)
        lo == ((n - 1) * q2) \div PctDen
        r == ((n - 1) * q2) % PctDen
        hi == IF lo + 1 < n THEN lo + 1 ELSE lo
    IN  a[lo + 1] * PctDen + r * (a[hi + 1] - a[lo + 1])

\* np.percentile(a, q) of a non-empty array, linear interpolation between
\* the two order statistics around position (n - 1) q / 100: the numerator
\* of the fraction over PctDen.
Percentile(a, q2) ==
    LET s == SortSeq(a, LAMBDA v, w : v < w)
        n == Len(s)
        lo == ((n - 1) * q2) \div PctDen
        r == ((n - 1) * q2) % PctDen
        hi == IF lo + 1 < n THEN lo + 1 ELSE lo
    IN  s[lo + 1] * PctDen + r * (s[hi + 1] - s[lo + 1])

\* np.sum(a >= p) for a percentile p.
CountAtLeast(a, p) == Cardinality({i \in 1..Len(a) : a[i] * PctDen >= p})

\* np.mean(intensities[a >= p]) if count > 0 else 0
MeanAtLeast(ints, a, p) ==
    IF CountAtLeast(a, p) > 0
    THEN <<SumSeq(Masked(ints, [i \in 1..Len(a) |-> a[i] * PctDen >= p])),
           CountAtLeast(a, p)>>
    ELSE <<0, 1>>

-----------------------------------------------------------------------------
(* The point tables the model reads: rows <<X, Y, Z, intensity>>           *)

PointValues ==
    { <<0, 0, 0, 1>>, <<100, 0, 0, 2>>, <<50, 30, 10, 3>>, <<20, 10, 15, 4>>,
      <<60, 20, 40, 5>>, <<10, 50, 70, 6>> }

\* Three ground points of height 0 under ten points whose heights are
\* 0.15, 0.2, 0.3, ... 1.0 m.
TenPointCanopy ==
    << <<0, 0, 0, 1>>, <<0, 10, 0, 1>>, <<0, 20, 0, 1>> >>
    \o [i \in 1..10 |-> <<0, i, IF i = 1 THEN 15 ELSE 10 * i, i>>]

\* Three ground points of one height.
FlatGround(z) == << <<0, 0, z, 1>>, <<0, 10, z, 1>>, <<0, 20, z, 2>> >>

\* Points over a flat ground: below it, dark, at 0.15 m, and higher ones of
\* equal and of different height.
CanopyValues ==
    { <<0, 0, 0 - 5, 1>>, <<0, 5, 10, 3>>, <<0, 10, 15, 4>>, <<20, 0, 40, 5>>,
      <<0, 20, 40, 7>>, <<10, 50, 70, 6>> }

TxtFiles ==
    SeqsUpTo(PointValues, MaxCloudPoints)
    \cup {FlatGround(z) \o c : z \in {0, 10}, c \in SeqsUpTo(CanopyValues, MaxCanopy)}
    \cup {TenPointCanopy}

-----------------------------------------------------------------------------
(* The steps of calculate_plant_height_and_plot.  The normal vector and    *)
(* the offset of the fitted plane are not used by the function and are     *)
(* not modelled; plotting is left out.                                     *)

\* The pcd2csv variables of a process that runs the other script.
PcdIdle ==
    /\ idx = 0
    /\ attempts = <<>>
    /\ reports = <<>>
    /\ exitStatus = "unstarted"
    /\ container = NoContainer
    /\ stage = "idle"
    /\ lines = <<>>
    /\ fpos = NoPos
    /\ metadata = NoMetaData
    /\ dtype = <<>>
    /\ pc_data = NoData
    /\ request = <<>>
    /\ matrix = NoResult
    /\ csv = NoCsv
    /\ err = NoErr

CropInit ==
    /\ PcdIdle
    /\ cstage = "start"
    /\ txt \in TxtFiles
    /\ CropUnbound

\* An exception leaves calculate_plant_height_and_plot.
CropRaise(at, exc) ==
    /\ cerr' = [at |-> at, exc |-> exc]
    /\ cstage' = "failed"

\* load_txt_point_cloud; X, Y, Z = the columns of points.  np.loadtxt
\* gives a one-dimensional array for a file of no row or one row, which
\* data[:, :3] cannot index.
LoadTxt ==
    /\ cstage = "start"
    /\ IF Len(txt) < 2
       THEN /\ CropRaise("LoadTxt", "IndexError")
            /\ UNCHANGED <<table, X, Y, Z, intensities>>
       ELSE /\ table' = txt
            /\ X' = Column(txt, 1)
            /\ Y' = Column(txt, 2)
            /\ Z' = Column(txt, 3)
            /\ intensities' = Column(txt, 4)
            /\ cstage' = "loaded"
            /\ cerr' = cerr
    /\ UNCHANGED <<txt, zden, ground_points, selected_ground_points,
                   ground_level, dark_mask, above_015, pct, count_top,
                   avg_int, bounding_box, p99_top_z, printed, returned>>
    /\ UNCHANGED pcdvars

\* ground_mask = (Z <= lowest_z + 0.231 * x_range)
ground_mask(xs, zs) ==
    LET lowest_z == MinOf(zs)
        x_range == MaxOf(xs) - MinOf(xs)
    IN  [i \in 1..Len(zs) |->
            1000 * zs[i] <= 1000 * lowest_z + SlopePerMille * x_range]

\* The candidate ground points; fewer than 3 raise.
FindGround ==
    /\ cstage = "loaded"
    /\ LET found == Masked([i \in 1..Len(table) |-> SubSeq(table[i], 1, 3)],
                           ground_mask(X, Z))
       IN  /\ ground_points' = found
           /\ IF Len(found) < 3
              THEN CropRaise("FindGround", "ValueError")
              ELSE cstage' = "ground" /\ cerr' = cerr
    /\ UNCHANGED <<txt, table, zden, X, Y, Z, intensities,
                   selected_ground_points, ground_level, dark_mask, above_015,
                   pct, count_top, avg_int, bounding_box, p99_top_z, printed,
                   returned>>
    /\ UNCHANGED pcdvars

\* high_ground_mask = (ground_points[:, 2] >= ground_z_90th)
high_ground_mask(gz) ==
    [i \in 1..Len(gz) |-> gz[i] * PctDen >= Percentile(gz, 180)]

\* A fit_plane that does not look at the number of points.
FitPlaneUnchecked ==
    /\ cstage = "ground"
    /\ LET gz == Column(ground_points, 3)
           kept == Masked(ground_points, high_ground_mask(gz))
       IN  /\ selected_ground_points' = kept
           /\ ground_level' = SumSeq(Column(kept, 3))
           /\ cstage' = "plane"
           /\ cerr' = cerr
    /\ UNCHANGED <<txt, table, zden, X, Y, Z, intensities, ground_points,
                   dark_mask, above_015, pct, count_top, avg_int,
                   bounding_box, p99_top_z, printed, returned>>
    /\ UNCHANGED pcdvars

\* The candidates at or above their 90th percentile are kept and fit_plane
\* is called on them: fewer than 3 raise, otherwise the ground level is
\* their mean height.
FitPlane ==
    /\ cstage = "ground"
    /\ LET gz == Column(ground_points, 3)
           kept == Masked(ground_points, high_ground_mask(gz))
       IN  /\ selected_ground_points' = kept
           /\ IF Len(kept) < 3
              THEN /\ CropRaise("FitPlane", "ValueError")
                   /\ ground_level' = ground_level
              ELSE /\ ground_level' = SumSeq(Column(kept, 3))
                   /\ cstage' = "plane"
                   /\ cerr' = cerr
    /\ UNCHANGED <<txt, table, zden, X, Y, Z, intensities, ground_points,
                   dark_mask, above_015, pct, count_top, avg_int,
                   bounding_box, p99_top_z, printed, returned>>
    /\ UNCHANGED pcdvars

\* Z -= ground_level: Z is the third column of the loaded array, which is
\* changed in place.  The heights become fractions over the number of
\* selected ground points.
Normalize ==
    /\ cstage = "plane"
    /\ LET k == Len(selected_ground_points)
       IN  /\ zden' = k
           /\ Z' = [i \in 1..Len(Z) |-> Z[i] * k - ground_level]
           /\ table' = [i \in 1..Len(table) |->
                          [table[i] EXCEPT ![3] = @ * k - ground_level]]
    /\ cstage' = "normalized"
    /\ UNCHANGED <<txt, X, Y, intensities, ground_points,
                   selected_ground_points, ground_level, dark_mask, above_015,
                   pct, count_top, avg_int, bounding_box, p99_top_z, printed,
                   returned, cerr>>
    /\ UNCHANGED pcdvars

\* above_plane_mask = (Z >= 0); X, Y, Z and intensities become the
\* filtered copies.
RemoveBelow ==
    /\ cstage = "normalized"
    /\ LET above_plane_mask == [i \in 1..Len(Z) |-> Z[i] >= 0]
       IN  /\ X' = Masked(X, above_plane_mask)
           /\ Y' = Masked(Y, above_plane_mask)
           /\ Z' = Masked(Z, above_plane_mask)
           /\ intensities' = Masked(intensities, above_plane_mask)
    /\ cstage' = "above"
    /\ UNCHANGED <<txt, table, zden, ground_points, selected_ground_points,
                   ground_level, dark_mask, above_015, pct, count_top,
                   avg_int, bounding_box, p99_top_z, printed, returned, cerr>>
    /\ UNCHANGED pcdvars

\* dark_mask = (Z > 0) & (Z < dark_threshold)
DarkMask(zs, den) ==
    [i \in 1..Len(zs) |-> zs[i] > 0 /\ zs[i] < dark_threshold * den]

\* above_015_mask = (Z >= dark_threshold)
above_015_mask(zs, den) == [i \in 1..Len(zs) |-> zs[i] >= dark_threshold * den]

\* The dark points are marked and the points of 0.15 m and more are
\* copied.
Split ==
    /\ cstage = "above"
    /\ dark_mask' = DarkMask(Z, zden)
    /\ above_015' = [X |-> Masked(X, above_015_mask(Z, zden)),
                     Y |-> Masked(Y, above_015_mask(Z, zden)),
                     Z |-> Masked(Z, above_015_mask(Z, zden)),
                     intensities |->
                         Masked(intensities, above_015_mask(Z, zden))]
    /\ cstage' = "split"
    /\ UNCHANGED <<txt, table, zden, X, Y, Z, intensities, ground_points,
                   selected_ground_points, ground_level, pct, count_top,
                   avg_int, bounding_box, p99_top_z, printed, returned, cerr>>
    /\ UNCHANGED pcdvars

\* if len(Z_above_015) == 0: the message is printed and 0 is returned.
ReturnEmpty ==
    /\ cstage = "split"
    /\ Len(above_015.Z) = 0
    /\ printed' = << <<"No points above 0.15 m. Exiting.", <<>>>> >>
    /\ returned' = <<0>>
    /\ cstage' = "returned"
    /\ UNCHANGED <<txt, table, zden, X, Y, Z, intensities, ground_points,
                   selected_ground_points, ground_level, dark_mask, above_015,
                   pct, count_top, avg_int, bounding_box, p99_top_z, cerr>>
    /\ UNCHANGED pcdvars

\* p50 ... p90 of the heights of 0.15 m and more.
Bands(zs) ==
    [p50 |-> Percentile(zs, 100), p60 |-> Percentile(zs, 120),
     p70 |-> Percentile(zs, 140), p80 |-> Percentile(zs, 160),
     p90 |-> Percentile(zs, 180)]

BandNames == {"p50", "p60", "p70", "p80", "p90"}

\* The percentiles, the cumulative counts and the mean intensities.
Percentiles ==
    /\ cstage = "split"
    /\ Len(above_015.Z) # 0
    /\ LET p == Bands(above_015.Z)
       IN  /\ pct' = p
           /\ count_top' = [b \in BandNames |-> CountAtLeast(above_015.Z, p[b])]
           /\ avg_int' = [b \in BandNames |->
                            MeanAtLeast(above_015.intensities, above_015.Z,
                                        p[b])]
    /\ cstage' = "bands"
    /\ UNCHANGED <<txt, table, zden, X, Y, Z, intensities, ground_points,
                   selected_ground_points, ground_level, dark_mask, above_015,
                   bounding_box, p99_top_z, printed, returned, cerr>>
    /\ UNCHANGED pcdvars

\* A bounding box whose width is taken as x_min - x_max.
BoxOfNegativeWidth(xs, ys, zs, p50) ==
    LET above_p50_mask == [i \in 1..Len(zs) |-> zs[i] * PctDen >= p50]
        X_50 == Masked(xs, above_p50_mask)
        Y_50 == Masked(ys, above_p50_mask)
        Z_50 == Masked(zs, above_p50_mask)
        width == MinOf(X_50) - MaxOf(X_50)
        length == MaxOf(Y_50) - MinOf(Y_50)
        height == MaxOf(Z_50) * PctDen - p50
        prism_height == IF height < 0 THEN 0 ELSE height
    IN  IF Len(X_50) < 2 THEN [area |-> 0, volume |-> 0]
        ELSE [area |-> width * length,
              volume |-> (width * length) * prism_height]

\* The bounding box of the points at or above p50: its area, and its
\* volume as a fraction over PctDen x zden.
BoxOf(xs, ys, zs, p50) ==
    LET above_p50_mask == [i \in 1..Len(zs) |-> zs[i] * PctDen >= p50]
        X_50 == Masked(xs, above_p50_mask)
        Y_50 == Masked(ys, above_p50_mask)
        Z_50 == Masked(zs, above_p50_mask)
        width == MaxOf(X_50) - MinOf(X_50)
        length == MaxOf(Y_50) - MinOf(Y_50)
        height == MaxOf(Z_50) * PctDen - p50
        prism_height == IF height < 0 THEN 0 ELSE height
    IN  IF Len(X_50) < 2 THEN [area |-> 0, volume |-> 0]
        ELSE [area |-> width * length,
              volume |-> (width * length) * prism_height]

BoundingBox ==
    /\ cstage = "bands"
    /\ bounding_box' = BoxOf(above_015.X, above_015.Y, above_015.Z, pct.p50)
    /\ cstage' = "box"
    /\ UNCHANGED <<txt, table, zden, X, Y, Z, intensities, ground_points,
                   selected_ground_points, ground_level, dark_mask, above_015,
                   pct, count_top, avg_int, p99_top_z, printed, returned, cerr>>
    /\ UNCHANGED pcdvars

\* The lines printed before the plot.
Printout(n, p, counts, means, box, p99) ==
    << <<"Number of points >= 0.15 m", <<n>>>>,
       <<"50th percentile (p50)", <<p.p50>>>>,
       <<"60th percentile (p60)", <<p.p60>>>>,
       <<"70th percentile (p70)", <<p.p70>>>>,
       <<"80th percentile (p80)", <<p.p80>>>>,
       <<"90th percentile (p90)", <<p.p90>>>>,
       <<"Points >= 50th pct", <<counts.p50, means.p50>>>>,
       <<"Points >= 60th pct", <<counts.p60, means.p60>>>>,
       <<"Points >= 70th pct", <<counts.p70, means.p70>>>>,
       <<"Points >= 80th pct", <<counts.p80, means.p80>>>>,
       <<"Points >= 90th pct", <<counts.p90, means.p90>>>>,
       <<"Bounding-box area (>= p50)", <<box.area>>>>,
       <<"Bounding-box volume (>= p50)", <<box.volume>>>>,
       <<"99.5th percentile height", <<p99>>>> >>

\* p99_top_z = np.percentile(Z, 99.5); the results are printed and the
\* height is returned.
PlantHeight ==
    /\ cstage = "box"
    /\ p99_top_z' = Percentile(Z, 199)
    /\ printed' = Printout(Len(above_015.X), pct, count_top, avg_int,
                           bounding_box, Percentile(Z, 199))
    /\ returned' = <<Percentile(Z, 199)>>
    /\ cstage' = "returned"
    /\ UNCHANGED <<txt, table, zden, X, Y, Z, intensities, ground_points,
                   selected_ground_points, ground_level, dark_mask, above_015,
                   pct, count_top, avg_int, bounding_box, cerr>>
    /\ UNCHANGED pcdvars

CropNext ==
    \/ LoadTxt
    \/ FindGround
    \/ FitPlane
    \/ Normalize
    \/ RemoveBelow
    \/ Split
    \/ ReturnEmpty
    \/ Percentiles
    \/ BoundingBox
    \/ PlantHeight

CropSpec == CropInit /\ [][CropNext]_vars

-----------------------------------------------------------------------------
(* Properties of calculate_plant_height_and_plot                           *)

\* The heights of the candidate ground points of the input table: the rows
\* with Z <= min(Z) + 0.231 x (max(X) - min(X)).
CandidateHeights ==
    LET xs == Column(txt, 1)
        zs == Column(txt, 3)
    IN  SelectSeq(zs, LAMBDA z :
            1000 * z <= 1000 * MinOf(zs) + 231 * (MaxOf(xs) - MinOf(xs)))

\* The heights of the refined subset: the candidates at or above the 90th
\* percentile of the candidate heights.
RefinedHeights ==
    SelectSeq(CandidateHeights,
              LAMBDA z : z * PctDen >= Percentile(CandidateHeights, 180))

\* The candidate set was computed.
GroundLooked == cstage \notin {"start", "loaded"} /\ cerr.at # "LoadTxt"

\* The refined subset was handed to fit_plane.
PlaneTried == GroundLooked /\ cstage # "ground" /\ cerr.at # "FindGround"

\* fit_plane returned a plane.
PlaneYielded == PlaneTried /\ cstage # "failed"

\* No metric was computed, printed or returned.
NoMetric ==
    /\ pct = NoBands
    /\ count_top = NoBands
    /\ avg_int = NoMeans
    /\ bounding_box = NoBox
    /\ p99_top_z = 0
    /\ printed = <<>>
    /\ returned = <<>>

\* C13: a plane is yielded only when the refined subset has at least 3
\* points; with fewer than 3 candidate points, or fewer than 3 refined
\* points, the run ends with the ValueError of the plane fit, and in a run
\* that ended so no metric is computed, printed or returned.
C13_PlaneNeedsThreePoints ==
    /\ PlaneYielded =>
          (Len(RefinedHeights) >= 3 /\ Len(selected_ground_points) >= 3)
    /\ (GroundLooked /\ Len(CandidateHeights) < 3) =>
          (cstage = "failed" /\ cerr = [at |-> "FindGround", exc |-> "ValueError"])
    /\ (PlaneTried /\ Len(RefinedHeights) < 3) =>
          (cstage = "failed" /\ cerr = [at |-> "FitPlane", exc |-> "ValueError"])
    /\ cstage = "failed" => NoMetric

\* Three candidate ground points of which fewer than 3 are at or above
\* their 90th percentile: the plane fit raised.
C13_Witness ==
    /\ cstage = "failed"
    /\ cerr.at = "FitPlane"
    /\ Len(ground_points) >= 3
    /\ Len(selected_ground_points) < 3
    /\ Len(selected_ground_points) = Len(RefinedHeights)

\* The percentiles of a non-empty analysis set were computed.
BandsComputed ==
    \/ cstage \in {"bands", "box"}
    \/ cstage = "returned" /\ Len(above_015.Z) > 0

\* C14: for a non-empty analysis set p50 <= p60 <= p70 <= p80 <= p90 and
\* count_top_50 >= count_top_60 >= count_top_70 >= count_top_80 >=
\* count_top_90.
C14_BandsMonotonic ==
    BandsComputed =>
        /\ pct.p50 <= pct.p60
        /\ pct.p60 <= pct.p70
        /\ pct.p70 <= pct.p80
        /\ pct.p80 <= pct.p90
        /\ count_top.p50 >= count_top.p60
        /\ count_top.p60 >= count_top.p70
        /\ count_top.p70 >= count_top.p80
        /\ count_top.p80 >= count_top.p90

\* An analysis set, not in ascending order in the table, whose percentiles
\* and counts differ from band to band.
C14_Witness ==
    /\ BandsComputed
    /\ \E i \in 1..(Len(above_015.Z) - 1) : above_015.Z[i] > above_015.Z[i + 1]
    /\ pct.p50 < pct.p70
    /\ pct.p70 < pct.p90
    /\ count_top.p50 > count_top.p90

\* The bounding box was computed.
BoxComputed ==
    \/ cstage = "box"
    \/ cstage = "returned" /\ Len(above_015.Z) > 0

\* The number of analysis points at or above p50.
NumAtLeastP50 ==
    Cardinality({i \in 1..Len(above_015.Z) : above_015.Z[i] * PctDen >= pct.p50})

\* C15: the bounding-box area and the prism volume computed are >= 0, and
\* both are 0 when fewer than 2 analysis points are at or above p50.
C15_BoxNonNegative ==
    BoxComputed =>
        /\ bounding_box.area >= 0
        /\ bounding_box.volume >= 0
        /\ NumAtLeastP50 < 2 => (bounding_box.area = 0 /\ bounding_box.volume = 0)

\* Two analysis points that differ in X, Y and height: one alone is at or
\* above p50 and the box is empty.
C15_Witness ==
    /\ BoxComputed
    /\ Len(above_015.Z) = 2
    /\ above_015.X[1] # above_015.X[2]
    /\ above_015.Y[1] # above_015.Y[2]
    /\ NumAtLeastP50 = 1
    /\ bounding_box = [area |-> 0, volume |-> 0]

\* The function returned although no point was at 0.15 m or higher.
ReturnedEmpty == cstage = "returned" /\ Len(above_015.Z) = 0

\* The lines that report the metrics, each with the value zero.
ZeroMetricLines ==
    Range(Tail(Printout(0, NoBands, NoBands, NoMeans, NoBox, 0)))

\* C16: when no point is at 0.15 m or higher the function raises nothing,
\* stops after the split and gives a result in which every metric (the
\* percentiles, the counts, the mean intensities, the area, the volume and
\* the plant height) is zero.
C16_EmptyAnalysisAllZero ==
    ReturnedEmpty =>
        /\ cerr = NoErr
        /\ returned = <<0>>
        /\ ZeroMetricLines \subseteq Range(printed)

\* The percentiles were computed for the analysis set of heights 0.15,
\* 0.2, 0.3, 0.4, 0.5, 0.6, 0.7, 0.8, 0.9 and 1.0 m.
TenPointSet ==
    /\ BandsComputed
    /\ above_015.Z = [i \in 1..10 |-> (IF i = 1 THEN 15 ELSE 10 * i) * zden]

\* The percentile p, a fraction over PctDen x zden of centimetres, is mm
\* millimetres.
IsMillimetres(p, mm) == p * 10 = mm * PctDen * zden

\* C17 as stated: for this analysis set p50 = 0.575 and count_top_50 = 5.
C17_TenPointP50Is0575 ==
    TenPointSet => (IsMillimetres(pct.p50, 575) /\ count_top.p50 = 5)

\* C17: for this analysis set the 50th percentile, interpolated between
\* the 5th and the 6th height (0.5 and 0.6), is p50 = 0.55, and
\* count_top_50 = 5.
C17_TenPointP50Is055 ==
    TenPointSet => (IsMillimetres(pct.p50, 550) /\ count_top.p50 = 5)

\* The function returned for the table with this analysis set.
C17_Witness ==
    /\ TenPointSet
    /\ cstage = "returned"
    /\ Len(above_015.Z) = 10
    /\ count_top.p50 = 5

-----------------------------------------------------------------------------
(* Properties of the conversion pipeline                                   *)

\* The steps of one conversion in their order; from every step but the
\* last a failure is possible, and the report ends the conversion.
StageOrder ==
    { <<"idle", "opened">>, <<"opened", "header">>, <<"header", "parsed">>,
      <<"parsed", "layout">>, <<"layout", "cloud">>, <<"cloud", "queried">>,
      <<"cloud", "matrix">>, <<"queried", "matrix">>, <<"matrix", "written">>,
      <<"written", "idle">>, <<"failed", "idle">> }
    \cup {<<s, "failed">> : s \in {"opened", "header", "parsed", "layout",
                                   "cloud", "queried"}}

\* The header of the current file has been parsed and validated.
HeaderParsed == stage \in {"parsed", "layout"} \/ HasCloud \/
                (stage = "failed" /\ err.at \in {"BuildLayout", "ReadBody", "ToMatrix"})

\* C18: a conversion goes once through header, layout, decoding and
\* output, in this order; nothing of the point block is read before the
\* header is parsed and validated; a failure ends the conversion at once,
\* and a failed conversion leaves no CSV.
C18_LinearPipeline ==
    /\ []((stage # "idle" /\ ~HeaderParsed) => fpos.body = 0)
    /\ [](stage = "failed" => (err # NoErr /\ csv = NoCsv))
    /\ [](csv # NoCsv => stage = "written")
    /\ [][stage' # stage => <<stage, stage'>> \in StageOrder]_vars
    /\ [][stage = "failed" => (stage' = "idle" /\ csv' = NoCsv)]_vars

\* The lines of the file from the place where the point block was read.
BlockRows == LinesFrom(container, pc_data.start)

\* C19: every PointCloud returned holds exactly `points` records, in
\* either encoding, and none is returned for an ASCII body whose number of
\* rows, or of tokens in a row, is not the one the header declares.
C19_CloudHoldsDeclaredPoints ==
    HasCloud =>
        /\ pc_data.n = metadata.points
        /\ (metadata.data = "ascii" /\ container.body.kind = "txt") =>
              /\ Len(BlockRows) = metadata.points
              /\ \A i \in 1..Len(BlockRows) :
                    1 + Len(BlockRows[i].val) = Len(dtype)

\* The points above the plane were split.
SplitDone ==
    \/ cstage \in {"split", "bands", "box", "returned"}

\* C20: after the points below the plane are dropped, every remaining
\* point is in exactly one of two classes: low/dark when 0 <= Z' < 0.15
\* (a point with Z' = 0 included), analysis set when Z' >= 0.15.
C20_SplitIsPartition ==
    SplitDone =>
        /\ \A i \in 1..Len(Z) :
              /\ dark_mask[i] <=> (0 <= Z[i] /\ Z[i] < dark_threshold * zden)
              /\ dark_mask[i] \/ Z[i] >= dark_threshold * zden
        /\ above_015.Z = SelectSeq(Z, LAMBDA z : z >= dark_threshold * zden)
        /\ Cardinality({i \in 1..Len(Z) : dark_mask[i]}) + Len(above_015.Z)
              = Len(Z)

\* The table was loaded.
TableLoaded ==
    \/ table # <<>>

\* C21: no step changes the value it received: after height
\* normalization and the later filters the loaded array still holds the
\* X, Y, Z and intensity of every row as loaded.  The third column of
\* table is a numerator over zden.
C21_LoadedArrayUnchanged ==
    TableLoaded =>
        /\ Len(table) = Len(txt)
        /\ \A i \in 1..Len(table) :
              /\ table[i][1] = txt[i][1]
              /\ table[i][2] = txt[i][2]
              /\ table[i][3] = txt[i][3] * zden
              /\ table[i][4] = txt[i][4]

\* C22: in every MetaData produced by parse_header the field names are
\* pairwise distinct, whatever suffixes were drawn for the anonymous
\* fields; a header with a repeated name yields no MetaData.
C22_FieldNamesDistinct ==
    metadata # NoMetaData => Distinct(metadata.fields)

====
